---- MODULE Spec2Model ----
(***************************************************************************)
(* Model of the modz dependency-wiring engine: the assembly (value store,  *)
(* producer index, waiter index, ready queue, Build loop), the per-module  *)
(* binder (phase gating, declared-key discipline) and the data registry.   *)
(***************************************************************************)
EXTENDS Integers, Sequences, FiniteSets, TLC

\* Bound on the number of binders newBinder creates over the engine's life.
MaxBinders == 3

(***************************************************************************)
(* Data keys.  A DataKey is a handle (a pointer); two handles may carry    *)
(* the same dataKeySignature.  "Y2" is a second handle with Y's signature. *)
(***************************************************************************)
Keys == {"X", "Y", "Y2"}

signature(k) == IF k = "X" THEN <<"modz", "x">> ELSE <<"modz", "y">>

Values == {41, 42}

(***************************************************************************)
(* Errors.  Plain errors carry a kind, the keys and the module signatures  *)
(* their message names.                                                    *)
(***************************************************************************)
Err(kind, keys, mods) == [kind |-> kind, keys |-> keys, mods |-> mods]

nil == Err("nil", {}, {})

newPhaseError(operation) == Err("phase", {}, {})

newUndeclaredKeyError(sig, key, declarationType) == Err("undeclared", {key}, {sig})

newInstallError(sig, message) == Err(message, {}, {sig})

newDataOperationError(key, message) == Err(message, {key}, {})

newFailFastError(operation, previousError) == Err("fail_fast", {}, {})

ConfigurationError(sig, operation, err) ==
  [kind |-> "configuration", keys |-> err.keys, mods |-> {sig},
   Operation |-> operation, Err |-> err]

(***************************************************************************)
(* Modules.  A module is what Name(), Produces() and Consumes() return,    *)
(* its package and whether its type embeds Singleton.                      *)
(***************************************************************************)
Mod(name, single, produces, consumes) ==
  [pkg |-> "modz", name |-> name, singleton |-> single,
   produces |-> produces, consumes |-> consumes]

NilModule == Mod("<nil>", FALSE, <<>>, <<>>)

mA  == Mod("a", FALSE, <<"X">>, <<>>)
mB  == Mod("b", FALSE, <<"Y">>, <<"X">>)
mAc == Mod("a", FALSE, <<"X">>, <<"Y">>)
mS  == Mod("a", TRUE,  <<"X">>, <<>>)
mC  == Mod("c", FALSE, <<>>, <<"X", "Y">>)
mD  == Mod("c", FALSE, <<"X", "Y2">>, <<>>)
mE  == Mod("c", FALSE, <<>>, <<"X", "Y2">>)
mF  == Mod("b", FALSE, <<"Y", "Y">>, <<>>)
mI  == Mod("b", FALSE, <<>>, <<"X", "X">>)

Modules == {mA, mB, mAc, mS, mC, mD, mE, mF, mI}

\* Modules for the runs about the order of the ready queue: one producer
\* of X, two consumers of X, and a module without contracts.
mG  == Mod("c", FALSE, <<>>, <<"X">>)
mH  == Mod("c", FALSE, <<>>, <<>>)
QueueModules == {mA, mB, mG, mH}

newModuleSignature(m) == <<m.pkg, m.name>>

isSingleton(m) == m.singleton

(***************************************************************************)
(* Helpers on sequences and maps.                                          *)
(***************************************************************************)
Range(s) == {s[i] : i \in 1..Len(s)}

\* The orders in which a range over a Go map may visit the set S.
Orders(S) == {o \in [1..Cardinality(S) -> S] : \A i, j \in 1..Cardinality(S) : o[i] = o[j] => i = j}

Delete(f, k) == [x \in DOMAIN f \ {k} |-> f[x]]

SliceToSet(list) ==
  IF Cardinality(Range(list)) # Len(list)
    THEN [set |-> {}, err |-> Err("duplicate_element", Range(list), {})]
    ELSE [set |-> Range(list), err |-> nil]

VARIABLES
  bindings,       \* assembly.bindings: moduleSignature -> binder
  registry,       \* assembly.registry.store: dataKeySignature -> DataKey
  data,           \* assembly.data: DataKey -> value
  waiters,        \* assembly.waiters: DataKey -> sequence of binders
  producers,      \* assembly.producers: DataKey -> binder
  ready,          \* assembly.ready: FIFO queue of binders
  built,          \* assembly.built
  buildCompleted, \* assembly.buildCompleted
  heap,           \* the binder objects, by address 1..Len(heap)
  pc,             \* where the engine's caller is: "new", "failed", "loop", "configure", "done"
  cur,            \* the binder whose Configure is running (0: none)
  buildErr,       \* what Build returned (nil until it returns)
  last,           \* the last call made and what it returned
  written         \* history: DataKey -> the binder that wrote it and the value

vars == <<bindings, registry, data, waiters, producers, ready, built,
          buildCompleted, heap, pc, cur, buildErr, last, written>>

\* The fields install and putDataValue work on, as one record.
State == [bindings |-> bindings, registry |-> registry, data |-> data,
          waiters |-> waiters, producers |-> producers, ready |-> ready,
          heap |-> heap]

Ret(st, err) == [st |-> st, err |-> err]

\* The record of a call: the operation and the kind of error it returned.
Call(op, err) == [op |-> op, kind |-> err.kind]

NoValue == 0

\* The parent of a binder installed by NewAssembly: no binder.
NoParent == 0

(***************************************************************************)
(* Data registry.                                                          *)
(***************************************************************************)
\* Faulty variant: a second handle with a registered signature is accepted.
Validate_noClash(reg, key) ==
  LET sig == signature(key) IN
  IF sig \in DOMAIN reg
    THEN [registry |-> reg, err |-> nil]
    ELSE [registry |-> (sig :> key) @@ reg, err |-> nil]

\* dataRegistry.Validate: the first handle seen for a signature is
\* registered; a different handle with that signature is a clash.
Validate(reg, key) ==
  LET sig == signature(key) IN
  IF sig \in DOMAIN reg
    THEN IF reg[sig] # key
           THEN [registry |-> reg, err |-> Err("signature_clash", {key, reg[sig]}, {})]
           ELSE [registry |-> reg, err |-> nil]
    ELSE [registry |-> (sig :> key) @@ reg, err |-> nil]

(***************************************************************************)
(* Binder: construction, discovery, readiness.                             *)
(***************************************************************************)
newBinder(m, parent, sig) ==
  [moduleSignature |-> sig, module |-> m, parent |-> parent,
   produces |-> {}, consumes |-> {}, waiting |-> {}, produced |-> {},
   inProgress |-> FALSE, configured |-> FALSE, configErr |-> nil]

\* Faulty variant: discovery leaves the waiting set empty.
discoverModule_noWaiting(b) ==
  LET p == SliceToSet(b.module.produces)
      c == SliceToSet(b.module.consumes)
  IN IF p.err # nil THEN [b |-> b, err |-> Err("produces_to_set", p.err.keys, {})]
     ELSE IF c.err # nil THEN [b |-> b, err |-> Err("consumes_to_set", c.err.keys, {})]
     ELSE [b |-> [b EXCEPT !.produces = p.set, !.consumes = c.set], err |-> nil]

\* Faulty variant: discovery takes the declared lists as sets, repeats or not.
discoverModule_acceptsRepeats(b) ==
  [b |-> [b EXCEPT !.produces = Range(b.module.produces),
                   !.consumes = Range(b.module.consumes),
                   !.waiting = Range(b.module.consumes)],
   err |-> nil]

discoverModule(b) ==
  LET p == SliceToSet(b.module.produces)
      c == SliceToSet(b.module.consumes)
  IN IF p.err # nil THEN [b |-> b, err |-> Err("produces_to_set", p.err.keys, {})]
     ELSE IF c.err # nil THEN [b |-> b, err |-> Err("consumes_to_set", c.err.keys, {})]
     ELSE [b |-> [b EXCEPT !.produces = p.set, !.consumes = c.set, !.waiting = c.set],
           err |-> nil]

\* Faulty variant: a binder with one unresolved dependency counts as ready.
isReady_offByOne(b) == Cardinality(b.waiting) <= 1

isReady(b) == b.waiting = {}

\* resolveDependency on the binder at address id: the heap after the
\* delete, and whether the binder's waiting set is now empty.
resolveDependency(hp, id, k) ==
  LET hp2 == [hp EXCEPT ![id].waiting = @ \ {k}]
  IN [heap |-> hp2, ready |-> hp2[id].waiting = {}]

(***************************************************************************)
(* Assembly: install.                                                      *)
(***************************************************************************)
\* install, when bindings already holds the module's signature.
alreadyAdded(st, m, sig) ==
  IF isSingleton(m)
    THEN Ret(st, nil)
    ELSE Ret(st, newInstallError(sig, "already added"))

\* Faulty variant: the loop over b.produces does not look for an existing producer.
RECURSIVE producesLoop_noDuplicateCheck(_, _, _)
producesLoop_noDuplicateCheck(st, id, ord) ==
  IF ord = <<>> THEN Ret(st, nil)
  ELSE LET k == Head(ord)
           v == Validate(st.registry, k)
           st1 == [st EXCEPT !.registry = v.registry]
       IN IF v.err # nil THEN Ret(st1, v.err)
          ELSE producesLoop_noDuplicateCheck(
                 [st1 EXCEPT !.producers = (k :> id) @@ @], id, Tail(ord))

\* Faulty variant: a contract that has a producer keeps it and the loop goes on.
RECURSIVE producesLoop_keepsFirst(_, _, _)
producesLoop_keepsFirst(st, id, ord) ==
  IF ord = <<>> THEN Ret(st, nil)
  ELSE LET k == Head(ord)
           v == Validate(st.registry, k)
           st1 == [st EXCEPT !.registry = v.registry]
       IN IF v.err # nil THEN Ret(st1, v.err)
          ELSE IF k \in DOMAIN st1.producers
            THEN producesLoop_keepsFirst(st1, id, Tail(ord))
            ELSE producesLoop_keepsFirst(
                   [st1 EXCEPT !.producers = (k :> id) @@ @], id, Tail(ord))

\* The loop over b.produces, visiting the keys in the order ord.
RECURSIVE producesLoop(_, _, _)
producesLoop(st, id, ord) ==
  IF ord = <<>> THEN Ret(st, nil)
  ELSE LET k == Head(ord)
           v == Validate(st.registry, k)
           st1 == [st EXCEPT !.registry = v.registry]
       IN IF v.err # nil THEN Ret(st1, v.err)
          ELSE IF k \in DOMAIN st1.producers
            THEN Ret(st1, Err("duplicate_producer", {k},
                               {st1.heap[st1.producers[k]].moduleSignature,
                                st1.heap[id].moduleSignature}))
            ELSE producesLoop([st1 EXCEPT !.producers = (k :> id) @@ @], id, Tail(ord))

\* Faulty variant: the loop over b.consumes registers the binder as a waiter
\* without looking for a value.
RECURSIVE consumesLoop_alwaysWait(_, _, _)
consumesLoop_alwaysWait(st, id, ord) ==
  IF ord = <<>> THEN Ret(st, nil)
  ELSE LET k == Head(ord)
           v == Validate(st.registry, k)
           st1 == [st EXCEPT !.registry = v.registry]
       IN IF v.err # nil THEN Ret(st1, v.err)
          ELSE consumesLoop_alwaysWait(
                 [st1 EXCEPT !.waiters =
                    (k :> (IF k \in DOMAIN @ THEN Append(@[k], id) ELSE <<id>>)) @@ @],
                 id, Tail(ord))

\* Faulty variant: a consumed key the binder itself produces counts as resolved.
RECURSIVE consumesLoop_ownProductResolved(_, _, _)
consumesLoop_ownProductResolved(st, id, ord) ==
  IF ord = <<>> THEN Ret(st, nil)
  ELSE LET k == Head(ord)
           v == Validate(st.registry, k)
           st1 == [st EXCEPT !.registry = v.registry]
       IN IF v.err # nil THEN Ret(st1, v.err)
          ELSE IF k \notin DOMAIN st1.data /\ k \notin st1.heap[id].produces
            THEN consumesLoop_ownProductResolved(
                   [st1 EXCEPT !.waiters =
                      (k :> (IF k \in DOMAIN @ THEN Append(@[k], id) ELSE <<id>>)) @@ @],
                   id, Tail(ord))
            ELSE consumesLoop_ownProductResolved(
                   [st1 EXCEPT !.heap = resolveDependency(@, id, k).heap],
                   id, Tail(ord))

\* Faulty variant: a consumed key that has a value is left in the waiting set.
RECURSIVE consumesLoop_noResolve(_, _, _)
consumesLoop_noResolve(st, id, ord) ==
  IF ord = <<>> THEN Ret(st, nil)
  ELSE LET k == Head(ord)
           v == Validate(st.registry, k)
           st1 == [st EXCEPT !.registry = v.registry]
       IN IF v.err # nil THEN Ret(st1, v.err)
          ELSE IF k \notin DOMAIN st1.data
            THEN consumesLoop_noResolve(
                   [st1 EXCEPT !.waiters =
                      (k :> (IF k \in DOMAIN @ THEN Append(@[k], id) ELSE <<id>>)) @@ @],
                   id, Tail(ord))
            ELSE consumesLoop_noResolve(st1, id, Tail(ord))

\* The loop over b.consumes, visiting the keys in the order ord.
RECURSIVE consumesLoop(_, _, _)
consumesLoop(st, id, ord) ==
  IF ord = <<>> THEN Ret(st, nil)
  ELSE LET k == Head(ord)
           v == Validate(st.registry, k)
           st1 == [st EXCEPT !.registry = v.registry]
       IN IF v.err # nil THEN Ret(st1, v.err)
          ELSE IF k \notin DOMAIN st1.data
            THEN consumesLoop(
                   [st1 EXCEPT !.waiters =
                      (k :> (IF k \in DOMAIN @ THEN Append(@[k], id) ELSE <<id>>)) @@ @],
                   id, Tail(ord))
            ELSE consumesLoop(
                   [st1 EXCEPT !.heap = resolveDependency(@, id, k).heap],
                   id, Tail(ord))

\* Faulty variant: a ready binder is queued only when it has no parent.
installNew_nestedNotQueued(st, m, sig, parent, pord, cord) ==
  LET d == discoverModule(newBinder(m, parent, sig)) IN
  IF d.err # nil THEN Ret(st, d.err)
  ELSE
  LET id == Len(st.heap) + 1
      st0 == [st EXCEPT !.heap = Append(@, d.b)]
      p == producesLoop(st0, id, pord)
  IN IF p.err # nil THEN p
     ELSE
     LET c == consumesLoop(p.st, id, cord) IN
     IF c.err # nil THEN c
     ELSE
     LET st2 == IF isReady(c.st.heap[id]) /\ parent = NoParent
                  THEN [c.st EXCEPT !.ready = Append(@, id)]
                  ELSE c.st
     IN Ret([st2 EXCEPT !.bindings = (sig :> id) @@ @], nil)

\* Faulty variant: a new binder is queued whether or not it is ready.
installNew_queuesAlways(st, m, sig, parent, pord, cord) ==
  LET d == discoverModule(newBinder(m, parent, sig)) IN
  IF d.err # nil THEN Ret(st, d.err)
  ELSE
  LET id == Len(st.heap) + 1
      st0 == [st EXCEPT !.heap = Append(@, d.b)]
      p == producesLoop(st0, id, pord)
  IN IF p.err # nil THEN p
     ELSE
     LET c == consumesLoop(p.st, id, cord) IN
     IF c.err # nil THEN c
     ELSE Ret([c.st EXCEPT !.ready = Append(@, id),
                           !.bindings = (sig :> id) @@ @], nil)

\* Faulty variant: a binder that is ready at install is configured at once.
installNew_configuresReady(st, m, sig, parent, pord, cord) ==
  LET d == discoverModule(newBinder(m, parent, sig)) IN
  IF d.err # nil THEN Ret(st, d.err)
  ELSE
  LET id == Len(st.heap) + 1
      st0 == [st EXCEPT !.heap = Append(@, d.b)]
      p == producesLoop(st0, id, pord)
  IN IF p.err # nil THEN p
     ELSE
     LET c == consumesLoop(p.st, id, cord) IN
     IF c.err # nil THEN c
     ELSE
     LET st2 == IF isReady(c.st.heap[id])
                  THEN [c.st EXCEPT !.heap[id].configured = TRUE]
                  ELSE c.st
     IN Ret([st2 EXCEPT !.bindings = (sig :> id) @@ @], nil)

\* install from newBinder on: discovery, the two loops, the push onto the
\* ready queue and the entry in bindings.  pord and cord are the orders in
\* which the two range loops visit b.produces and b.consumes.
installNew(st, m, sig, parent, pord, cord) ==
  LET d == discoverModule(newBinder(m, parent, sig)) IN
  IF d.err # nil THEN Ret(st, d.err)
  ELSE
  LET id == Len(st.heap) + 1
      st0 == [st EXCEPT !.heap = Append(@, d.b)]
      p == producesLoop(st0, id, pord)
  IN IF p.err # nil THEN p
     ELSE
     LET c == consumesLoop(p.st, id, cord) IN
     IF c.err # nil THEN c
     ELSE
     LET st2 == IF isReady(c.st.heap[id])
                  THEN [c.st EXCEPT !.ready = Append(@, id)]
                  ELSE c.st
     IN Ret([st2 EXCEPT !.bindings = (sig :> id) @@ @], nil)

\* Faulty variant: install does not look the signature up in bindings.
install_noExistsCheck(st, m, parent, pord, cord) ==
  IF m = NilModule THEN Ret(st, newInstallError(<<"", "unknown">>, "cannot add nil module"))
  ELSE installNew(st, m, newModuleSignature(m), parent, pord, cord)

\* Faulty variant: a Singleton module whose signature is installed is installed anew.
install_reinstall(st, m, parent, pord, cord) ==
  IF m = NilModule THEN Ret(st, newInstallError(<<"", "unknown">>, "cannot add nil module"))
  ELSE IF newModuleSignature(m) \in DOMAIN st.bindings /\ ~isSingleton(m)
    THEN alreadyAdded(st, m, newModuleSignature(m))
  ELSE installNew(st, m, newModuleSignature(m), parent, pord, cord)

\* assembly.install(m, parent).
install(st, m, parent, pord, cord) ==
  IF m = NilModule THEN Ret(st, newInstallError(<<"", "unknown">>, "cannot add nil module"))
  ELSE IF newModuleSignature(m) \in DOMAIN st.bindings
    THEN alreadyAdded(st, m, newModuleSignature(m))
  ELSE installNew(st, m, newModuleSignature(m), parent, pord, cord)

(***************************************************************************)
(* Assembly: the value store.                                              *)
(***************************************************************************)
getDataValue(st, key) ==
  IF key \notin DOMAIN st.data
    THEN [val |-> NoValue, err |-> newDataOperationError(key, "no value found")]
    ELSE [val |-> st.data[key], err |-> nil]

\* Faulty variant: every binder waiting for key is pushed, ready or not.
RECURSIVE releaseLoop_pushAll(_, _, _)
releaseLoop_pushAll(st, ws, key) ==
  IF ws = <<>> THEN st
  ELSE LET r == resolveDependency(st.heap, Head(ws), key)
           st1 == [st EXCEPT !.heap = r.heap]
       IN releaseLoop_pushAll([st1 EXCEPT !.ready = Append(@, Head(ws))], Tail(ws), key)

\* Faulty variant: a released binder is put at the front of the ready queue.
RECURSIVE releaseLoop_pushFront(_, _, _)
releaseLoop_pushFront(st, ws, key) ==
  IF ws = <<>> THEN st
  ELSE LET r == resolveDependency(st.heap, Head(ws), key)
           st1 == [st EXCEPT !.heap = r.heap]
       IN releaseLoop_pushFront(
            IF r.ready THEN [st1 EXCEPT !.ready = <<Head(ws)>> \o @] ELSE st1,
            Tail(ws), key)

\* The loop of putDataValue over the binders waiting for key.
RECURSIVE releaseLoop(_, _, _)
releaseLoop(st, ws, key) ==
  IF ws = <<>> THEN st
  ELSE LET r == resolveDependency(st.heap, Head(ws), key)
           st1 == [st EXCEPT !.heap = r.heap]
       IN releaseLoop(IF r.ready THEN [st1 EXCEPT !.ready = Append(@, Head(ws))] ELSE st1,
                      Tail(ws), key)

\* Faulty variant: a write to a key that has a value replaces the value.
putDataValue_overwrite(st, key, value) ==
  LET st1 == [st EXCEPT !.data = (key :> value) @@ @]
      ws == IF key \in DOMAIN st1.waiters THEN st1.waiters[key] ELSE <<>>
  IN IF Len(ws) > 0
       THEN Ret([releaseLoop(st1, ws, key) EXCEPT !.waiters = Delete(@, key)], nil)
       ELSE Ret(st1, nil)

\* Faulty variant: the write does not release the binders waiting for key.
putDataValue_noRelease(st, key, value) ==
  IF key \in DOMAIN st.data THEN Ret(st, newDataOperationError(key, "already set"))
  ELSE Ret([st EXCEPT !.data = (key :> value) @@ @], nil)

\* Faulty variant: putDataValue leaves the key's entry in the waiter index.
putDataValue_keepsWaiters(st, key, value) ==
  IF key \in DOMAIN st.data THEN Ret(st, newDataOperationError(key, "already set"))
  ELSE LET st1 == [st EXCEPT !.data = (key :> value) @@ @]
           ws == IF key \in DOMAIN st1.waiters THEN st1.waiters[key] ELSE <<>>
       IN Ret(releaseLoop(st1, ws, key), nil)

putDataValue(st, key, value) ==
  IF key \in DOMAIN st.data THEN Ret(st, newDataOperationError(key, "already set"))
  ELSE
  LET st1 == [st EXCEPT !.data = (key :> value) @@ @]
      ws == IF key \in DOMAIN st1.waiters THEN st1.waiters[key] ELSE <<>>
  IN IF Len(ws) > 0
       THEN Ret([releaseLoop(st1, ws, key) EXCEPT !.waiters = Delete(@, key)], nil)
       ELSE Ret(st1, nil)

(***************************************************************************)
(* Binder: the operations a module calls from Configure.                   *)
(***************************************************************************)
\* The error a Binder operation returns when an earlier operation of the
\* same configuration call has already recorded an error.
failFast(b, operation) ==
  IF b.configErr # nil THEN newFailFastError(operation, b.configErr) ELSE nil

\* Records err as the binder's configuration error when it is the first.
trackError(st, id, operation, err) ==
  IF err # nil /\ st.heap[id].configErr = nil
    THEN [st EXCEPT !.heap[id].configErr =
            ConfigurationError(st.heap[id].moduleSignature, operation, err)]
    ELSE st

\* Faulty variant: Install does not test inProgress.
Install_noPhaseCheck(st, id, m, pord, cord) ==
  IF failFast(st.heap[id], "Install") # nil
    THEN Ret(st, failFast(st.heap[id], "Install"))
  ELSE LET r == install(st, m, id, pord, cord)
       IN Ret(trackError(r.st, id, "Install", r.err), r.err)

Install(st, id, m, pord, cord) ==
  IF ~st.heap[id].inProgress THEN Ret(st, newPhaseError("Install"))
  ELSE IF failFast(st.heap[id], "Install") # nil
    THEN Ret(st, failFast(st.heap[id], "Install"))
  ELSE LET r == install(st, m, id, pord, cord)
       IN Ret(trackError(r.st, id, "Install", r.err), r.err)

getData(st, id, key) ==
  IF ~st.heap[id].inProgress
    THEN [st |-> st, val |-> NoValue, err |-> newPhaseError("getData")]
  ELSE IF failFast(st.heap[id], "getData") # nil
    THEN [st |-> st, val |-> NoValue, err |-> failFast(st.heap[id], "getData")]
  ELSE IF key \notin st.heap[id].consumes
    THEN LET e == newUndeclaredKeyError(st.heap[id].moduleSignature, key, "Consumes")
         IN [st |-> trackError(st, id, "getData", e), val |-> NoValue, err |-> e]
  ELSE LET r == getDataValue(st, key)
       IN [st |-> trackError(st, id, "getData", r.err), val |-> r.val, err |-> r.err]

\* Faulty variant: putData does not look the key up in b.produces.
putData_noDeclaredCheck(st, id, key, value) ==
  IF ~st.heap[id].inProgress THEN Ret(st, newPhaseError("putData"))
  ELSE IF failFast(st.heap[id], "putData") # nil
    THEN Ret(st, failFast(st.heap[id], "putData"))
  ELSE LET r == putDataValue(st, key, value)
       IN IF r.err = nil
            THEN Ret([r.st EXCEPT !.heap[id].produced = @ \cup {key}], nil)
            ELSE Ret(trackError(r.st, id, "putData", r.err), r.err)

\* Faulty variant: putData goes on after an earlier operation has failed.
putData_noFailFast(st, id, key, value) ==
  IF ~st.heap[id].inProgress THEN Ret(st, newPhaseError("putData"))
  ELSE IF key \notin st.heap[id].produces
    THEN LET e == newUndeclaredKeyError(st.heap[id].moduleSignature, key, "Produces")
         IN Ret(trackError(st, id, "putData", e), e)
  ELSE LET r == putDataValue(st, key, value)
       IN IF r.err = nil
            THEN Ret([r.st EXCEPT !.heap[id].produced = @ \cup {key}], nil)
            ELSE Ret(trackError(r.st, id, "putData", r.err), r.err)

\* Faulty variant: putData does not test inProgress.
putData_noPhaseCheck(st, id, key, value) ==
  IF failFast(st.heap[id], "putData") # nil
    THEN Ret(st, failFast(st.heap[id], "putData"))
  ELSE IF key \notin st.heap[id].produces
    THEN LET e == newUndeclaredKeyError(st.heap[id].moduleSignature, key, "Produces")
         IN Ret(trackError(st, id, "putData", e), e)
  ELSE LET r == putDataValue(st, key, value)
       IN IF r.err = nil
            THEN Ret([r.st EXCEPT !.heap[id].produced = @ \cup {key}], nil)
            ELSE Ret(trackError(r.st, id, "putData", r.err), r.err)

putData(st, id, key, value) ==
  IF ~st.heap[id].inProgress THEN Ret(st, newPhaseError("putData"))
  ELSE IF failFast(st.heap[id], "putData") # nil
    THEN Ret(st, failFast(st.heap[id], "putData"))
  ELSE IF key \notin st.heap[id].produces
    THEN LET e == newUndeclaredKeyError(st.heap[id].moduleSignature, key, "Produces")
         IN Ret(trackError(st, id, "putData", e), e)
  ELSE LET r == putDataValue(st, key, value)
       IN IF r.err = nil
            THEN Ret([r.st EXCEPT !.heap[id].produced = @ \cup {key}], nil)
            ELSE Ret(trackError(r.st, id, "putData", r.err), r.err)

(***************************************************************************)
(* Binder: configureModule, in the two halves around the Configure call.   *)
(***************************************************************************)
\* Faulty variant: configureModule does not test the configured flag.
configureModuleCall_noOnce(st, id) ==
  Ret([st EXCEPT !.heap[id].configured = TRUE, !.heap[id].inProgress = TRUE], nil)

\* configureModule up to the call of module.Configure.
configureModuleCall(st, id) ==
  IF st.heap[id].configured
    THEN Ret(st, Err("configureModule_once", {}, {st.heap[id].moduleSignature}))
    ELSE Ret([st EXCEPT !.heap[id].configured = TRUE, !.heap[id].inProgress = TRUE], nil)

\* The error configureModule reports for what Configure returned: the
\* first error a Binder operation recorded, else Configure's own.
firstError(b, err) ==
  IF b.configErr # nil THEN b.configErr
  ELSE IF err # nil THEN ConfigurationError(b.moduleSignature, "Configure", err)
  ELSE nil

\* Faulty variant: configureModule reports only what Configure returned.
configureModuleReturn_ownErrorOnly(st, id, err) ==
  LET st1 == [st EXCEPT !.heap[id].inProgress = FALSE]
      b == st1.heap[id]
      missing == b.produces \ b.produced
  IN IF err # nil
       THEN Ret(st1, ConfigurationError(b.moduleSignature, "Configure", err))
     ELSE IF missing # {}
       THEN LET e == ConfigurationError(b.moduleSignature, "Configure",
                                        Err("not_produced", missing, {b.moduleSignature}))
            IN Ret([st1 EXCEPT !.heap[id].configErr = e], e)
     ELSE Ret(st1, nil)

\* Faulty variant: configureModule does not compare produces with produced.
configureModuleReturn_noProducedCheck(st, id, err) ==
  LET st1 == [st EXCEPT !.heap[id].inProgress = FALSE]
      b == st1.heap[id]
  IN IF firstError(b, err) # nil
       THEN Ret([st1 EXCEPT !.heap[id].configErr = firstError(b, err)], firstError(b, err))
     ELSE Ret(st1, nil)

\* Faulty variant: configureModule leaves inProgress set when Configure returns.
configureModuleReturn_staysInProgress(st, id, err) ==
  LET b == st.heap[id]
      missing == b.produces \ b.produced
  IN IF firstError(b, err) # nil
       THEN Ret([st EXCEPT !.heap[id].configErr = firstError(b, err)], firstError(b, err))
     ELSE IF missing # {}
       THEN LET e == ConfigurationError(b.moduleSignature, "Configure",
                                        Err("not_produced", missing, {b.moduleSignature}))
            IN Ret([st EXCEPT !.heap[id].configErr = e], e)
     ELSE Ret(st, nil)

\* Faulty variant: configureModule returns what Configure returned as it is.
configureModuleReturn_rawError(st, id, err) ==
  LET st1 == [st EXCEPT !.heap[id].inProgress = FALSE]
      b == st1.heap[id]
      missing == b.produces \ b.produced
  IN IF b.configErr # nil THEN Ret(st1, b.configErr)
     ELSE IF err # nil THEN Ret([st1 EXCEPT !.heap[id].configErr = err], err)
     ELSE IF missing # {}
       THEN LET e == ConfigurationError(b.moduleSignature, "Configure",
                                        Err("not_produced", missing, {b.moduleSignature}))
            IN Ret([st1 EXCEPT !.heap[id].configErr = e], e)
     ELSE Ret(st1, nil)

\* Faulty variant: a failed configuration clears the configured flag.
configureModuleReturn_retryOnError(st, id, err) ==
  LET st1 == [st EXCEPT !.heap[id].inProgress = FALSE]
      b == st1.heap[id]
      missing == b.produces \ b.produced
  IN IF firstError(b, err) # nil
       THEN Ret([st1 EXCEPT !.heap[id].configErr = firstError(b, err),
                            !.heap[id].configured = FALSE], firstError(b, err))
     ELSE IF missing # {}
       THEN LET e == ConfigurationError(b.moduleSignature, "Configure",
                                        Err("not_produced", missing, {b.moduleSignature}))
            IN Ret([st1 EXCEPT !.heap[id].configErr = e], e)
     ELSE Ret(st1, nil)

\* configureModule from the return of module.Configure with err.
configureModuleReturn(st, id, err) ==
  LET st1 == [st EXCEPT !.heap[id].inProgress = FALSE]
      b == st1.heap[id]
      missing == b.produces \ b.produced
  IN IF firstError(b, err) # nil
       THEN Ret([st1 EXCEPT !.heap[id].configErr = firstError(b, err)], firstError(b, err))
     ELSE IF missing # {}
       THEN LET e == ConfigurationError(b.moduleSignature, "Configure",
                                        Err("not_produced", missing, {b.moduleSignature}))
            IN Ret([st1 EXCEPT !.heap[id].configErr = e], e)
     ELSE Ret(st1, nil)

(***************************************************************************)
(* The state machine.                                                      *)
(***************************************************************************)
Init ==
  /\ bindings = <<>>
  /\ registry = <<>>
  /\ data = <<>>
  /\ waiters = <<>>
  /\ producers = <<>>
  /\ ready = <<>>
  /\ built = FALSE
  /\ buildCompleted = FALSE
  /\ heap = <<>>
  /\ pc = "new"
  /\ cur = 0
  /\ buildErr = nil
  /\ last = Call("NewAssembly", nil)
  /\ written = <<>>

\* Writes the fields of st back to the variables.
Store(st) ==
  /\ bindings' = st.bindings
  /\ registry' = st.registry
  /\ data' = st.data
  /\ waiters' = st.waiters
  /\ producers' = st.producers
  /\ ready' = st.ready
  /\ heap' = st.heap

\* One round of NewAssembly's loop over its modules: asm.install(m, nil).
\* An error ends the construction: NewAssembly returns no assembly.
NewAssemblyInstall(m) ==
  /\ pc = "new"
  /\ \E pord \in Orders(Range(m.produces)), cord \in Orders(Range(m.consumes)) :
       LET r == install(State, m, NoParent, pord, cord) IN
       /\ Len(r.st.heap) <= MaxBinders
       /\ Store(r.st)
       /\ pc' = IF r.err = nil THEN "new" ELSE "failed"
       /\ last' = Call("install", r.err)
  /\ UNCHANGED <<built, buildCompleted, cur, buildErr, written>>

\* Faulty variant: Build does not test the built flag and starts the loop again.
Build_noOnce ==
  /\ pc \in {"new", "loop", "configure", "done"}
  /\ built' = TRUE
  /\ pc' = "loop"
  /\ last' = Call("Build", nil)
  /\ UNCHANGED <<bindings, registry, data, waiters, producers, ready,
                 buildCompleted, heap, cur, buildErr, written>>

\* Faulty variant: Build pops the queue before it tests the built flag.
Build_popsFirst ==
  /\ pc \in {"new", "loop", "configure", "done"}
  /\ ready' = IF ready = <<>> THEN ready ELSE Tail(ready)
  /\ IF built
       THEN /\ last' = Call("Build", Err("Build_once", {}, {}))
            /\ UNCHANGED <<built, pc>>
       ELSE /\ built' = TRUE
            /\ pc' = "loop"
            /\ last' = Call("Build", nil)
  /\ UNCHANGED <<bindings, registry, data, waiters, producers,
                 buildCompleted, heap, cur, buildErr, written>>

\* Build, from its call to the compare-and-swap of built.
Build ==
  /\ pc \in {"new", "loop", "configure", "done"}
  /\ IF built
       THEN /\ last' = Call("Build", Err("Build_once", {}, {}))
            /\ UNCHANGED <<built, pc>>
       ELSE /\ built' = TRUE
            /\ pc' = "loop"
            /\ last' = Call("Build", nil)
  /\ UNCHANGED <<bindings, registry, data, waiters, producers, ready,
                 buildCompleted, heap, cur, buildErr, written>>

\* Faulty variant: Build does not look at the waiter index when the queue is empty.
waitersCheck_skip(ws) == nil

\* Build's check after its loop: binders still wait for the keys of ws.
waitersCheck(ws) ==
  IF DOMAIN ws # {} THEN Err("build_incomplete", DOMAIN ws, {}) ELSE nil

\* Faulty variant: Build stores buildCompleted whatever the waiter index holds.
BuildLoop_completesAnyway ==
  /\ pc = "loop"
  /\ IF ready = <<>>
       THEN /\ buildErr' = waitersCheck(waiters)
            /\ buildCompleted' = TRUE
            /\ pc' = "done"
            /\ last' = Call("BuildReturn", buildErr')
            /\ UNCHANGED <<bindings, registry, data, waiters, producers, ready, heap, cur>>
       ELSE LET b == Head(ready)
                r == configureModuleCall([State EXCEPT !.ready = Tail(ready)], b)
            IN /\ Store(r.st)
               /\ IF r.err # nil
                    THEN /\ pc' = "done"
                         /\ buildErr' = r.err
                         /\ cur' = cur
                         /\ last' = Call("BuildReturn", r.err)
                    ELSE /\ pc' = "configure"
                         /\ cur' = b
                         /\ buildErr' = buildErr
                         /\ last' = Call("Configure", nil)
               /\ UNCHANGED buildCompleted
  /\ UNCHANGED <<built, written>>

\* Faulty variant: with an empty queue and binders still waiting, Build
\* goes round its loop again instead of returning.
BuildLoop_waitsForWaiters ==
  /\ pc = "loop"
  /\ IF ready = <<>>
       THEN IF waitersCheck(waiters) # nil
              THEN /\ last' = Call("Build", nil)
                   /\ UNCHANGED <<bindings, registry, data, waiters, producers, ready,
                                  heap, cur, buildErr, buildCompleted, pc>>
              ELSE /\ buildErr' = nil
                   /\ buildCompleted' = TRUE
                   /\ pc' = "done"
                   /\ last' = Call("BuildReturn", buildErr')
                   /\ UNCHANGED <<bindings, registry, data, waiters, producers, ready,
                                  heap, cur>>
       ELSE LET b == Head(ready)
                r == configureModuleCall([State EXCEPT !.ready = Tail(ready)], b)
            IN /\ Store(r.st)
               /\ IF r.err # nil
                    THEN /\ pc' = "done"
                         /\ buildErr' = r.err
                         /\ cur' = cur
                         /\ last' = Call("BuildReturn", r.err)
                    ELSE /\ pc' = "configure"
                         /\ cur' = b
                         /\ buildErr' = buildErr
                         /\ last' = Call("Configure", nil)
               /\ UNCHANGED buildCompleted
  /\ UNCHANGED <<built, written>>

\* One round of Build's loop: pop the ready queue; when it is empty, the
\* check of the waiter index and Build's return; else configureModule up
\* to the call of Configure.
BuildLoop ==
  /\ pc = "loop"
  /\ IF ready = <<>>
       THEN /\ buildErr' = waitersCheck(waiters)
            /\ buildCompleted' = (waitersCheck(waiters) = nil \/ buildCompleted)
            /\ pc' = "done"
            /\ last' = Call("BuildReturn", buildErr')
            /\ UNCHANGED <<bindings, registry, data, waiters, producers, ready, heap, cur>>
       ELSE LET b == Head(ready)
                r == configureModuleCall([State EXCEPT !.ready = Tail(ready)], b)
            IN /\ Store(r.st)
               /\ IF r.err # nil
                    THEN /\ pc' = "done"
                         /\ buildErr' = r.err
                         /\ cur' = cur
                         /\ last' = Call("BuildReturn", r.err)
                    ELSE /\ pc' = "configure"
                         /\ cur' = b
                         /\ buildErr' = buildErr
                         /\ last' = Call("Configure", nil)
               /\ UNCHANGED buildCompleted
  /\ UNCHANGED <<built, written>>

\* Faulty variant: Build goes on with its loop when configureModule
\* reports an error.
ConfigureReturn_goOn(err) ==
  /\ pc = "configure"
  /\ LET r == configureModuleReturn(State, cur, err) IN
     /\ Store(r.st)
     /\ pc' = "loop"
     /\ buildErr' = buildErr
     /\ last' = Call("configureModule", r.err)
  /\ cur' = 0
  /\ UNCHANGED <<built, buildCompleted, written>>

\* module.Configure returns err: the rest of configureModule, and Build's
\* return when configureModule reports an error.
ConfigureReturn(err) ==
  /\ pc = "configure"
  /\ LET r == configureModuleReturn(State, cur, err) IN
     /\ Store(r.st)
     /\ IF r.err # nil
          THEN /\ pc' = "done"
               /\ buildErr' = r.err
               /\ last' = Call("BuildReturn", r.err)
          ELSE /\ pc' = "loop"
               /\ buildErr' = buildErr
               /\ last' = Call("configureModule", nil)
  /\ cur' = 0
  /\ UNCHANGED <<built, buildCompleted, written>>

\* Binder.Install(m) on the binder at address b.
BinderInstall(b, m) ==
  /\ pc \in {"configure", "done"}
  /\ \E pord \in Orders(Range(m.produces)), cord \in Orders(Range(m.consumes)) :
       LET r == Install(State, b, m, pord, cord) IN
       /\ Len(r.st.heap) <= MaxBinders
       /\ Store(r.st)
       /\ last' = Call("Install", r.err)
  /\ UNCHANGED <<built, buildCompleted, pc, cur, buildErr, written>>

\* Binder.getData(key) on the binder at address b.
BinderGet(b, key) ==
  /\ pc \in {"configure", "done"}
  /\ LET r == getData(State, b, key) IN
     /\ Store(r.st)
     /\ last' = Call("getData", r.err)
  /\ UNCHANGED <<built, buildCompleted, pc, cur, buildErr, written>>

\* Binder.putData(key, value) on the binder at address b.
BinderPut(b, key, value) ==
  /\ pc \in {"configure", "done"}
  /\ LET r == putData(State, b, key, value) IN
     /\ Store(r.st)
     /\ last' = Call("putData", r.err)
     /\ written' = IF r.err = nil THEN (key :> [b |-> b, value |-> value]) @@ written
                    ELSE written
  /\ UNCHANGED <<built, buildCompleted, pc, cur, buildErr>>

\* Faulty variant: the external read does not test buildCompleted.
asmGetData_noGate(st, completed, key) == getDataValue(st, key)

\* assembly.getData(key): the read the hosting application makes.
asmGetData(st, completed, key) ==
  IF ~completed
    THEN [val |-> NoValue, err |-> Err("getData_before_build", {}, {})]
    ELSE getDataValue(st, key)

AssemblyGet(key) ==
  /\ pc \in {"new", "loop", "configure", "done"}
  /\ LET r == asmGetData(State, buildCompleted, key) IN
     last' = Call("asm.getData", r.err)
  /\ UNCHANGED <<bindings, registry, data, waiters, producers, ready, built,
                 buildCompleted, heap, pc, cur, buildErr, written>>

ConfigureErrors == {nil, Err("configure failed", {}, {})}

Next ==
  \/ \E m \in Modules \cup {NilModule} : NewAssemblyInstall(m)
  \/ Build
  \/ BuildLoop
  \/ \E err \in ConfigureErrors : ConfigureReturn(err)
  \/ \E b \in 1..Len(heap), m \in Modules \cup {NilModule} : BinderInstall(b, m)
  \/ \E b \in 1..Len(heap), key \in Keys : BinderGet(b, key)
  \/ \E b \in 1..Len(heap), key \in Keys, value \in Values : BinderPut(b, key, value)
  \/ \E key \in Keys : AssemblyGet(key)

Spec == Init /\ [][Next]_vars

\* The same engine with the modules of QueueModules.
NextQueue ==
  \/ \E m \in QueueModules : NewAssemblyInstall(m)
  \/ Build
  \/ BuildLoop
  \/ \E err \in ConfigureErrors : ConfigureReturn(err)
  \/ \E b \in 1..Len(heap), m \in QueueModules : BinderInstall(b, m)
  \/ \E b \in 1..Len(heap), key \in Keys : BinderGet(b, key)
  \/ \E b \in 1..Len(heap), key \in Keys, value \in Values : BinderPut(b, key, value)
  \/ \E key \in Keys : AssemblyGet(key)

SpecQueue == Init /\ [][NextQueue]_vars

(***************************************************************************)
(* Properties.                                                             *)
(***************************************************************************)
\* The binders in assembly.bindings.
Installed == {bindings[sig] : sig \in DOMAIN bindings}

BuildSucceeded == pc = "done" /\ buildErr = nil

\* C1: while a module's Configure runs, every contract of its declared
\* Consumes set has a value in the value store, so a get of a declared
\* consumed contract issued inside Configure never fails with the
\* missing-value error (and returns the stored value when no earlier
\* Binder call of that Configure has failed).
C1_ConfigureSeesConsumes ==
  \A b \in 1..Len(heap) :
    heap[b].inProgress =>
      /\ heap[b].consumes \subseteq DOMAIN data
      /\ \A k \in heap[b].consumes :
           /\ getData(State, b, k).err.kind # "no value found"
           /\ heap[b].configErr = nil =>
                getData(State, b, k) = [st |-> State, val |-> data[k], err |-> nil]

C1_Witness ==
  /\ pc = "configure"
  /\ heap[cur].inProgress
  /\ heap[cur].consumes # {}
  /\ last = Call("getData", nil)

\* The binders of All that can be configured in some order: the least set
\* holding every binder whose consumed contracts are produced by its members.
RECURSIVE Configurable(_, _)
Configurable(S, All) ==
  LET nxt == {b \in All : heap[b].consumes \subseteq UNION {heap[c].produces : c \in S}}
  IN IF nxt = S THEN S ELSE Configurable(nxt, All)

\* The installed modules have satisfiable dependencies.
Satisfiable == Configurable({}, Installed) = Installed

\* The installed modules have disjoint produce/consume sets.
DisjointSets ==
  /\ \A b \in Installed : heap[b].produces \cap heap[b].consumes = {}
  /\ \A b, c \in Installed : b # c => heap[b].produces \cap heap[c].produces = {}

\* Every Configure that ran wrote all of its declared produced contracts.
AllProduced == \A b \in Installed : heap[b].configured => heap[b].produces \subseteq heap[b].produced

\* Build succeeded and the external read of every declared produced
\* contract returns the value its producer wrote.
ReadableAsWritten ==
  /\ buildErr = nil
  /\ \A b \in Installed : \A k \in heap[b].produces :
       /\ k \in DOMAIN written
       /\ written[k].b = b
       /\ asmGetData(State, buildCompleted, k) = [val |-> written[k].value, err |-> nil]

NoConfigurationError == \A b \in 1..Len(heap) : heap[b].configErr = nil

C3_BuildOnlyOnce ==
  [][(built /\ last'.op = "Build") =>
       /\ last'.kind = "Build_once"
       /\ UNCHANGED <<bindings, registry, data, waiters, producers, ready, built,
                      buildCompleted, heap, pc, cur, buildErr, written>>]_vars

C3_Witness ==
  /\ last = Call("Build", Err("Build_once", {}, {}))
  /\ pc = "done"
  /\ buildErr # nil

\* C4: the external read returns an error in every state in which Build has
\* not completed successfully (before Build, while it runs, after it has
\* failed), whether or not the store holds a value for the contract.
C4_NoReadBeforeSuccess ==
  ~BuildSucceeded =>
    \A key \in Keys : asmGetData(State, buildCompleted, key).err.kind = "getData_before_build"

C4_Witness ==
  /\ pc = "done"
  /\ buildErr # nil
  /\ DOMAIN data # {}
  /\ last = Call("asm.getData", Err("getData_before_build", {}, {}))

\* The consumed contracts of binder b that have no value in the store.
Unmet(b) == heap[b].consumes \ DOMAIN data

\* C5 as stated: when Build has returned and an installed module consumes a
\* contract that was never written, Build's error names that contract and
\* the module's Configure was never invoked.
C5_AsStated ==
  pc = "done" =>
    \A b \in Installed : \A k \in Unmet(b) :
      /\ buildErr # nil
      /\ k \in buildErr.keys
      /\ ~heap[b].configured

\* C5 amended: an installed module that consumes a contract without a value
\* is never configured; when Build has returned it returned an error, and
\* that error is the incomplete-build error naming the unmet contract
\* unless Build stopped earlier on the error of a configuration call.
C5_UnmetDependencyFailsBuild ==
  \A b \in Installed : \A k \in Unmet(b) :
    /\ ~heap[b].configured
    /\ pc = "done" =>
         /\ buildErr # nil
         /\ buildErr.kind \in {"build_incomplete", "configuration"}
         /\ buildErr.kind = "build_incomplete" => k \in buildErr.keys
         /\ NoConfigurationError => buildErr.kind = "build_incomplete"

C5_Witness ==
  /\ pc = "done"
  /\ buildErr.kind = "build_incomplete"
  /\ \E b \in Installed : Unmet(b) # {} /\ Unmet(b) \subseteq buildErr.keys
  /\ \E c \in Installed : heap[c].configured
  /\ last.op = "BuildReturn"

\* Binders a and b are installed and consume each other's sole product.
MutualPair(a, b) ==
  /\ a \in Installed /\ b \in Installed
  /\ \E x, y \in Keys :
       /\ x # y
       /\ heap[a].produces = {x} /\ heap[a].consumes = {y}
       /\ heap[b].produces = {y} /\ heap[b].consumes = {x}

\* The engine holds nothing that rejects mAc or mB on its own: neither
\* signature is installed, X and Y have no producer and no clashing handle.
AcceptsPair ==
  /\ pc = "new"
  /\ {newModuleSignature(mAc), newModuleSignature(mB)} \cap DOMAIN bindings = {}
  /\ {"X", "Y"} \cap DOMAIN producers = {}
  /\ \A k \in {"X", "Y"} : Validate(registry, k).err = nil

\* C6: two modules that consume each other's sole product are both
\* installed without error, neither module's Configure is ever invoked,
\* and Build, when it returns, returns an error.
C6_MutualCycle ==
  /\ AcceptsPair =>
       LET r1 == install(State, mAc, NoParent, <<"X">>, <<"Y">>)
           r2 == install(r1.st, mB, NoParent, <<"Y">>, <<"X">>)
       IN /\ r1.err = nil /\ r2.err = nil
          /\ {newModuleSignature(mAc), newModuleSignature(mB)} \subseteq DOMAIN r2.st.bindings
          /\ r2.st.ready = ready
  /\ \A a, b \in 1..Len(heap) :
       MutualPair(a, b) =>
         /\ ~heap[a].configured /\ ~heap[b].configured
         /\ a \notin Range(ready) /\ b \notin Range(ready)
         /\ pc = "done" => buildErr # nil

C6_Witness ==
  /\ pc = "done"
  /\ buildErr.kind = "build_incomplete"
  /\ \E a, b \in 1..Len(heap) : MutualPair(a, b)
  /\ last.op = "BuildReturn"

\* st with the recorded configuration errors of its binders cleared.
Untracked(st) ==
  [st EXCEPT !.heap = [i \in DOMAIN st.heap |-> [st.heap[i] EXCEPT !.configErr = nil]]]

DeclaresInstalledProduct(m) ==
  /\ newModuleSignature(m) \notin DOMAIN bindings
  /\ \E k \in Range(m.produces) : k \in DOMAIN producers /\ producers[k] \in Installed

\* C9 as stated: installing a module that declares a produced contract an
\* installed module also produces fails with the duplicate-producer error
\* naming both module signatures.
C9_AsStated ==
  \A m \in Modules :
    DeclaresInstalledProduct(m) =>
      \A pord \in Orders(Range(m.produces)), cord \in Orders(Range(m.consumes)) :
        LET r == install(State, m, NoParent, pord, cord) IN
        /\ r.err.kind = "duplicate_producer"
        /\ \E k \in Range(m.produces) \cap DOMAIN producers :
             r.err.mods = {heap[producers[k]].moduleSignature, newModuleSignature(m)}

\* The produced contracts of m pass the registry and no declared list of m
\* repeats an entry.
NoEarlierRejection(m) ==
  /\ discoverModule(newBinder(m, NoParent, newModuleSignature(m))).err = nil
  /\ \A k \in Range(m.produces) : Validate(registry, k).err = nil
  /\ \A k1, k2 \in Range(m.produces) : signature(k1) = signature(k2) => k1 = k2

\* C9 amended: installing a module (whose signature is not installed) that
\* declares a produced contract an installed module also produces fails
\* and adds no binding, whether or not the contract has a value; the error
\* is the duplicate-producer error naming the contract and both module
\* signatures, unless install rejects the module earlier for a repeated
\* entry in a declared list or for a signature clash of a produced
\* contract.
C9_DuplicateProducer ==
  \A m \in Modules :
    DeclaresInstalledProduct(m) =>
      \A pord \in Orders(Range(m.produces)), cord \in Orders(Range(m.consumes)) :
        LET r == install(State, m, NoParent, pord, cord) IN
        /\ r.err.kind \in {"duplicate_producer", "signature_clash",
                           "produces_to_set", "consumes_to_set"}
        /\ r.st.bindings = bindings
        /\ r.err.kind = "duplicate_producer" =>
             \E k \in Range(m.produces) \cap DOMAIN producers :
               r.err = Err("duplicate_producer", {k},
                           {heap[producers[k]].moduleSignature, newModuleSignature(m)})
        /\ NoEarlierRejection(m) => r.err.kind = "duplicate_producer"

C9_Witness ==
  /\ pc = "configure"
  /\ last = Call("Install", Err("duplicate_producer", {}, {}))
  /\ "X" \in DOMAIN producers
  /\ "X" \in DOMAIN data

\* Module m declares a contract handle whose signature the registry holds
\* for a different handle, and m's own signature is not installed.
PresentsSecondHandle(m) ==
  /\ newModuleSignature(m) \notin DOMAIN bindings
  /\ \E k \in Range(m.produces) \cup Range(m.consumes) :
       signature(k) \in DOMAIN registry /\ registry[signature(k)] # k

\* C10 as stated: the installation of a module that presents a second
\* handle for a registered contract signature fails with the
\* signature-clash error.
C10_AsStated ==
  \A m \in Modules :
    PresentsSecondHandle(m) =>
      \A pord \in Orders(Range(m.produces)), cord \in Orders(Range(m.consumes)) :
        install(State, m, NoParent, pord, cord).err.kind = "signature_clash"

\* No declared list of m repeats an entry and no produced contract of m
\* has a producer.
NoOtherRejection(m) ==
  /\ discoverModule(newBinder(m, NoParent, newModuleSignature(m))).err = nil
  /\ Range(m.produces) \cap DOMAIN producers = {}

\* C10 amended: the installation of a module (whose signature is not
\* installed) that presents a second handle for a registered contract
\* signature fails and adds no binding; the error is the signature-clash
\* error naming both handles, unless install rejects the module earlier
\* for a repeated entry in a declared list or for a duplicate producer.
\* Presenting the registered handle again is accepted and leaves the
\* registry as it was.
C10_SignatureClash ==
  /\ \A m \in Modules :
       PresentsSecondHandle(m) =>
         \A pord \in Orders(Range(m.produces)), cord \in Orders(Range(m.consumes)) :
           LET r == install(State, m, NoParent, pord, cord) IN
           /\ r.err.kind \in {"signature_clash", "duplicate_producer",
                              "produces_to_set", "consumes_to_set"}
           /\ r.st.bindings = bindings
           /\ r.err.kind = "signature_clash" =>
                \E k \in Range(m.produces) \cup Range(m.consumes) :
                  /\ signature(k) \in DOMAIN registry
                  /\ r.err = Err("signature_clash", {k, registry[signature(k)]}, {})
           /\ NoOtherRejection(m) => r.err.kind = "signature_clash"
  /\ \A k \in Keys :
       (signature(k) \in DOMAIN registry /\ registry[signature(k)] = k) =>
         Validate(registry, k) = [registry |-> registry, err |-> nil]

C10_Witness ==
  /\ last = Call("Install", Err("signature_clash", {}, {}))
  /\ pc = "configure"
  /\ \E k \in Keys : signature(k) \in DOMAIN registry /\ registry[signature(k)] = k
                     /\ k \in DOMAIN producers

\* The declared produced contracts binder b has not written.
NotProduced(b) == heap[b].produces \ heap[b].produced

\* The 'declared but not produced' error of binder b.
NotProducedError(b) ==
  ConfigurationError(heap[b].moduleSignature, "Configure",
                     Err("not_produced", NotProduced(b), {heap[b].moduleSignature}))

C12_UndeclaredKey ==
  \A b \in 1..Len(heap) : \A key \in Keys :
    /\ key \notin heap[b].consumes =>
         LET r == getData(State, b, key) IN
         /\ r.err # nil
         /\ Untracked(r.st) = Untracked(State)
         /\ (heap[b].inProgress /\ heap[b].configErr = nil) =>
              r.err = Err("undeclared", {key}, {heap[b].moduleSignature})
    /\ key \notin heap[b].produces =>
         \A value \in Values :
           LET r == putData(State, b, key, value) IN
           /\ r.err # nil
           /\ r.st.data = data /\ r.st.waiters = waiters /\ r.st.ready = ready
           /\ Untracked(r.st) = Untracked(State)
           /\ (heap[b].inProgress /\ heap[b].configErr = nil) =>
                r.err = Err("undeclared", {key}, {heap[b].moduleSignature})

C12_Witness ==
  /\ pc = "configure"
  /\ last = Call("putData", Err("undeclared", {}, {}))
  /\ heap[cur].configErr.kind = "configuration"
  /\ heap[cur].configErr.Operation = "putData"
  /\ (Keys \ heap[cur].produces) \cap DOMAIN data = {}
  /\ DOMAIN waiters # {}

\* C13: Install, get and put on a Binder whose binding is not in progress
\* (its configuration has not started, or its Configure has returned) fail
\* with the phase error and change nothing; hence a call that succeeds was
\* made in the in-progress phase.
C13_PhaseGate ==
  \A b \in 1..Len(heap) :
    ~heap[b].inProgress =>
      /\ \A m \in Modules \cup {NilModule} :
           \A pord \in Orders(Range(m.produces)), cord \in Orders(Range(m.consumes)) :
             Install(State, b, m, pord, cord) = Ret(State, Err("phase", {}, {}))
      /\ \A key \in Keys :
           /\ getData(State, b, key) =
                [st |-> State, val |-> NoValue, err |-> Err("phase", {}, {})]
           /\ \A value \in Values :
                putData(State, b, key, value) = Ret(State, Err("phase", {}, {}))

C13_Witness ==
  /\ pc = "done"
  /\ last = Call("Install", Err("phase", {}, {}))
  /\ Len(heap) >= 2
  /\ \E b \in 1..Len(heap) : heap[b].configured /\ heap[b].produced # {}
  /\ \E b \in 1..Len(heap) : ~heap[b].configured

\* C14: when a configuration call ends with an error, Build returns that
\* error at once, the value store, the ready queue, the waiter index and
\* the other binders are left as they are, and after Build's return
\* nothing changes any more: no binding is popped or configured and no
\* written value is taken back.
C14_BuildStopsOnError ==
  [][/\ (pc = "configure" /\ pc' # "configure" /\ heap'[cur].configErr # nil) =>
          /\ pc' = "done"
          /\ buildErr' = heap'[cur].configErr
          /\ ~buildCompleted'
          /\ data' = data /\ ready' = ready /\ waiters' = waiters
          /\ \A b \in DOMAIN heap \ {cur} : heap'[b] = heap[b]
     /\ pc = "done" =>
          UNCHANGED <<bindings, registry, data, waiters, producers, ready, built,
                      buildCompleted, heap, pc, cur, buildErr, written>>]_vars

C14_Witness ==
  /\ pc = "done"
  /\ buildErr.kind = "configuration"
  /\ ready # <<>>
  /\ DOMAIN waiters # {}
  /\ \E b \in Installed :
       /\ heap[b].configErr = buildErr
       /\ heap[b].produced # {}
       /\ heap[b].produced \subseteq DOMAIN data
  /\ \A b \in Range(ready) : ~heap[b].configured
  /\ last.op = "getData"

\* The results of every Binder operation binder b can be asked for, each
\* with the operation's name.
BinderCalls(b) ==
  UNION {{[op |-> "Install", st |-> Install(State, b, m, pord, cord).st,
            err |-> Install(State, b, m, pord, cord).err] :
             pord \in Orders(Range(m.produces)), cord \in Orders(Range(m.consumes))} :
           m \in Modules \cup {NilModule}}
  \cup {[op |-> "getData", st |-> getData(State, b, key).st,
         err |-> getData(State, b, key).err] : key \in Keys}
  \cup {[op |-> "putData", st |-> putData(State, b, key, value).st,
         err |-> putData(State, b, key, value).err] : key \in Keys, value \in Values}

C16_ConfigureAtMostOnce ==
  [][/\ (last'.op = "Configure" /\ pc = "loop") =>
          /\ ~heap[cur'].configured
          /\ heap'[cur'].configured /\ heap'[cur'].inProgress
     /\ \A b \in 1..Len(heap) :
          heap[b].configured =>
            /\ heap'[b].configured
            /\ heap'[b].inProgress => heap[b].inProgress
            /\ b \notin Range(ready)
            /\ configureModuleCall(State, b) =
                 Ret(State, Err("configureModule_once", {}, {heap[b].moduleSignature}))]_vars

C16_Witness ==
  /\ BuildSucceeded
  /\ Cardinality(Installed) >= 3
  /\ \A b \in Installed : heap[b].configured /\ ~heap[b].inProgress
  /\ last = Call("BuildReturn", nil)

\* C17: a put to a contract that has a value fails with 'already set' and
\* changes nothing; a contract that has a value keeps that value in every
\* later state and every read returns it; a read of a contract without a
\* value fails with 'no value found'.
C17_WriteOnce ==
  [][\A key \in Keys :
       /\ key \in DOMAIN data =>
            /\ key \in DOMAIN data' /\ data'[key] = data[key]
            /\ getDataValue(State, key) = [val |-> data[key], err |-> nil]
            /\ \A value \in Values :
                 putDataValue(State, key, value) =
                   Ret(State, Err("already set", {key}, {}))
       /\ key \notin DOMAIN data =>
            getDataValue(State, key) =
              [val |-> NoValue, err |-> Err("no value found", {key}, {})]]_vars

C17_Witness ==
  /\ pc = "configure"
  /\ last = Call("putData", Err("already set", {}, {}))
  /\ heap[cur].produced # {}
  /\ \A key \in heap[cur].produced : data[key] = written[key].value
  /\ heap[cur].configErr.kind = "configuration"
  /\ heap[cur].configErr.Err.kind = "already set"

WaitersOf(key) == IF key \in DOMAIN waiters THEN waiters[key] ELSE <<>>

\* C19: a successful put of key stores the value, removes key from the
\* waiting set of every binder registered under key in the waiter index
\* and of no other, appends to the ready queue, in the order of the
\* index, exactly the registered binders whose waiting set became empty,
\* and deletes the index entry of key; nothing else changes.
C19_PutReleasesWaiters ==
  \A key \in Keys \ DOMAIN data : \A value \in Values :
    LET r == putDataValue(State, key, value)
        Unblocked(b) == heap[b].waiting \ {key} = {}
    IN /\ r.err = nil
       /\ r.st.data = (key :> value) @@ data
       /\ r.st.heap =
            [b \in DOMAIN heap |->
               IF b \in Range(WaitersOf(key))
                 THEN [heap[b] EXCEPT !.waiting = @ \ {key}]
                 ELSE heap[b]]
       /\ r.st.ready = ready \o SelectSeq(WaitersOf(key), Unblocked)
       /\ r.st.waiters = Delete(waiters, key)
       /\ key \notin DOMAIN r.st.waiters
       /\ r.st.bindings = bindings /\ r.st.producers = producers
       /\ r.st.registry = registry

C19_Witness ==
  /\ pc = "configure"
  /\ last = Call("putData", nil)
  /\ heap[cur].produced # {}
  /\ heap[cur].produced \cap DOMAIN waiters = {}
  /\ \E b \in Range(ready) : heap[b].consumes \cap heap[cur].produced # {}
  /\ \E b \in Installed :
       /\ heap[b].consumes \cap heap[cur].produced # {}
       /\ heap[b].waiting # {}
       /\ b \notin Range(ready)

\* C20: after a successful install of a module whose signature was not
\* installed, the new binder's waiting set holds exactly its consumed
\* contracts without a value, the waiter index has the binder appended
\* under exactly those contracts, and the binder is appended to the ready
\* queue if and only if its waiting set is empty.
C20_InstallWaitsOrQueues ==
  \A m \in Modules :
    newModuleSignature(m) \notin DOMAIN bindings =>
      \A pord \in Orders(Range(m.produces)), cord \in Orders(Range(m.consumes)) :
        LET r == install(State, m, NoParent, pord, cord)
            id == Len(heap) + 1
            unmet == Range(m.consumes) \ DOMAIN data
        IN r.err = nil =>
             /\ r.st.bindings = (newModuleSignature(m) :> id) @@ bindings
             /\ r.st.heap[id].consumes = Range(m.consumes)
             /\ r.st.heap[id].waiting = unmet
             /\ DOMAIN r.st.waiters = DOMAIN waiters \cup unmet
             /\ \A k \in DOMAIN r.st.waiters :
                  r.st.waiters[k] = IF k \in unmet THEN Append(WaitersOf(k), id)
                                    ELSE waiters[k]
             /\ r.st.ready = IF unmet = {} THEN Append(ready, id) ELSE ready
             /\ r.st.data = data

C20_Witness ==
  /\ pc = "configure"
  /\ last = Call("Install", nil)
  /\ Len(heap) \in Installed
  /\ heap[Len(heap)].parent = cur
  /\ heap[Len(heap)].consumes \cap DOMAIN data # {}
  /\ heap[Len(heap)].waiting = heap[Len(heap)].consumes \ DOMAIN data
  /\ heap[Len(heap)].waiting # {}
  /\ Len(heap) \notin Range(ready)
  /\ \A k \in heap[Len(heap)].waiting : Len(heap) \in Range(WaitersOf(k))

\* C21: Build pops the head of the ready queue; every other step keeps the
\* queue as a prefix of the new queue, so a binder is only ever appended
\* behind those already queued; the binders one put releases are appended
\* in the order of their installation (the order of their addresses).
C21_ReadyQueueFifo ==
  [][/\ (pc = "loop" /\ last'.op = "Configure") =>
          /\ cur' = Head(ready)
          /\ ready' = Tail(ready)
     /\ last'.op # "Configure" =>
          /\ Len(ready') >= Len(ready)
          /\ SubSeq(ready', 1, Len(ready)) = ready
     /\ last'.op = "putData" =>
          \A i, j \in (Len(ready) + 1)..Len(ready') :
            i < j => ready'[i] < ready'[j]]_vars

C21_Witness ==
  /\ pc = "configure"
  /\ last = Call("putData", nil)
  /\ Len(ready) = 2
  /\ ready[1] < ready[2]
  /\ bindings[newModuleSignature(mB)] = ready[1]
  /\ \A i \in 1..2 : heap[ready[i]].consumes \subseteq heap[cur].produced
  /\ \A i \in 1..2 : heap[ready[i]].consumes # {}
  /\ heap[ready[2]].parent = cur

\* The binders whose Configure is running.
InProgress == {b \in 1..Len(heap) : heap[b].inProgress}

\* C22: at most one binder is in progress at any time, and it is the one
\* Build is configuring; a binder installed by a binder that is in progress
\* has not been configured, whether it is waiting or already in the ready
\* queue.
C22_OneInProgress ==
  /\ Cardinality(InProgress) <= 1
  /\ InProgress = IF pc = "configure" THEN {cur} ELSE {}
  /\ \A b \in 1..Len(heap) :
       (heap[b].parent # NoParent /\ heap[heap[b].parent].inProgress) =>
         /\ ~heap[b].configured
         /\ ~heap[b].inProgress

C22_Witness ==
  /\ pc = "configure"
  /\ InProgress = {cur}
  /\ \E b \in Range(ready) :
       /\ heap[b].parent = cur
       /\ heap[b].waiting = {}
       /\ ~heap[b].configured
  /\ \E b \in Installed : b # cur /\ heap[b].configured

\* C23: every binder in the ready queue has an empty waiting set and has
\* not been configured; no binder is in the queue twice; an installed
\* binder with an empty waiting set is either in the queue or configured
\* (popped), never both, so a popped binder is not queued again.
C23_ReadyQueueContents ==
  /\ \A i \in 1..Len(ready) :
       /\ ready[i] \in Installed
       /\ heap[ready[i]].waiting = {}
       /\ ~heap[ready[i]].configured
       /\ ~heap[ready[i]].inProgress
  /\ \A i, j \in 1..Len(ready) : ready[i] = ready[j] => i = j
  /\ \A b \in Installed :
       heap[b].waiting = {} => (b \in Range(ready)) # heap[b].configured
  /\ \A b \in Installed : heap[b].configured => b \notin Range(ready)

C23_Witness ==
  /\ pc = "loop"
  /\ Len(ready) >= 1
  /\ \E b \in Installed :
       /\ heap[b].configured
       /\ heap[b].waiting = {}
       /\ b \notin Range(ready)
  /\ \E b \in Installed : heap[b].waiting # {} /\ b \notin Range(ready)
  /\ \A i \in 1..Len(ready) : heap[ready[i]].consumes # {}

\* C24: when Build has returned success the ready queue and the waiter
\* index are empty and every installed binder, those installed during Build
\* included, has been configured; the engine is marked build-completed only
\* then; when the queue is drained while an installed binder still waits,
\* the check after the loop yields the build-incomplete error, and whenever
\* Build has returned with an installed binder still waiting it returned
\* an error and the engine is not marked build-completed.
C24_BuildSuccessMeansAllConfigured ==
  /\ BuildSucceeded =>
       /\ ready = <<>>
       /\ DOMAIN waiters = {}
       /\ buildCompleted
       /\ \A b \in Installed :
            heap[b].configured /\ ~heap[b].inProgress /\ heap[b].waiting = {}
  /\ buildCompleted => BuildSucceeded
  /\ (pc = "loop" /\ ready = <<>> /\ \E b \in Installed : heap[b].waiting # {}) =>
       /\ waitersCheck(waiters) # nil
       /\ waitersCheck(waiters).kind = "build_incomplete"
       /\ \A b \in Installed : heap[b].waiting \subseteq waitersCheck(waiters).keys
  /\ (pc = "done" /\ \E b \in Installed : heap[b].waiting # {}) =>
       /\ buildErr # nil
       /\ ~buildCompleted
       /\ buildErr.kind # "configuration" => buildErr.kind = "build_incomplete"

C24_Witness ==
  /\ pc = "done"
  /\ buildErr.kind = "build_incomplete"
  /\ ~buildCompleted
  /\ ready = <<>>
  /\ \E b \in Installed :
       /\ heap[b].parent # NoParent
       /\ heap[b].waiting # {}
       /\ heap[b].waiting \subseteq buildErr.keys
  /\ \A b \in Installed : heap[b].waiting = {} => heap[b].configured

BinderOps == {"Install", "getData", "putData"}

ConfigurationOps == BinderOps \cup {"Configure"}

\* e names module sig, one of the four operations and a cause.
Structured(e, sig) ==
  /\ e.kind = "configuration"
  /\ e.mods = {sig}
  /\ e.Operation \in ConfigurationOps
  /\ e.Err # nil
  /\ e.Err.kind \notin {"configuration", "fail_fast", "phase"}

RepeatsEntry(m) ==
  \/ Cardinality(Range(m.produces)) # Len(m.produces)
  \/ Cardinality(Range(m.consumes)) # Len(m.consumes)

PhaseRank(b) ==
  IF b.inProgress THEN 3
  ELSE IF b.configured THEN 4
  ELSE IF b.waiting = {} THEN 2
  ELSE 1

\* C28: in every step every binder keeps its phase or moves forward; its
\* waiting set only shrinks; it becomes in-progress only from the ready
\* phase, when it is not yet marked configured, so at most once; a binder
\* whose configuration call has returned is never in progress again and
\* keeps the error it ended with.
C28_PhaseMovesForward ==
  [][\A b \in 1..Len(heap) :
       /\ Len(heap') >= Len(heap)
       /\ PhaseRank(heap'[b]) >= PhaseRank(heap[b])
       /\ heap'[b].waiting \subseteq heap[b].waiting
       /\ heap[b].configured => heap'[b].configured
       /\ (heap'[b].inProgress /\ ~heap[b].inProgress) =>
            /\ PhaseRank(heap[b]) = 2
            /\ ~heap[b].configured /\ heap'[b].configured
       /\ (heap[b].configured /\ ~heap[b].inProgress) =>
            /\ ~heap'[b].inProgress
            /\ heap'[b].configErr = heap[b].configErr
       /\ heap[b].inProgress => heap[b].waiting = {} /\ heap[b].configured]_vars

C28_Witness ==
  /\ pc = "done"
  /\ \E b \in Installed :
       /\ heap[b].parent # NoParent
       /\ heap[b].consumes # {}
       /\ PhaseRank(heap[b]) = 4
       /\ heap[b].configErr = buildErr
       /\ buildErr # nil
  /\ \E b \in Installed : PhaseRank(heap[b]) = 4 /\ heap[b].configErr = nil

\* Build runs its loop to the end: a started round is finished, and a
\* Configure call that was made returns.
FairSpec ==
  /\ Spec
  /\ WF_vars(BuildLoop)
  /\ WF_vars(\E err \in ConfigureErrors : ConfigureReturn(err))

BuildRunning == built /\ pc \in {"loop", "configure"}

\* C29: once Build has passed its one-shot flag it eventually returns,
\* with success or with an error, whatever Install, getData and putData
\* calls the Configure calls make on the way.
C29_BuildReturns == BuildRunning ~> (pc = "done")

C29_Witness ==
  /\ pc = "done"
  /\ last.op = "BuildReturn"
  /\ \E b \in Installed : heap[b].parent # NoParent /\ heap[b].configured
  /\ DOMAIN written # {}
  /\ Cardinality(Installed) >= 3

\* C30: of the Build calls made on one engine, whenever they arrive, the
\* one that finds the flag clear sets it and starts the loop, and there is
\* no second one; a call that finds the flag set, also while the first
\* caller is in its loop or inside a Configure call, returns the
\* called-once error and pops and configures nothing; the queue is only
\* ever popped by the rounds of the first caller's loop.
C30_OneBuildDrains ==
  [][/\ built => built'
     /\ last'.op = "Build" =>
          /\ built'
          /\ (last'.kind = "nil") = ~built
          /\ ~built => pc = "new" /\ pc' = "loop"
          /\ built => /\ last'.kind = "Build_once"
                      /\ pc' = pc /\ cur' = cur
                      /\ buildErr' = buildErr /\ buildCompleted' = buildCompleted
          /\ ready' = ready /\ heap' = heap /\ data' = data
          /\ waiters' = waiters /\ bindings' = bindings
     /\ (Len(ready') < Len(ready) \/ InProgress' # InProgress) =>
          /\ built /\ pc \in {"loop", "configure"}
          /\ last'.op \in {"Configure", "configureModule", "BuildReturn"}]_vars

C30_Witness ==
  /\ last = Call("Build", Err("Build_once", {}, {}))
  /\ pc = "configure"
  /\ ready # <<>>
  /\ built
  /\ InProgress = {cur}

(***************************************************************************)
(* Data handles: the typed Get and Put of a handle over a reader/writer.   *)
(***************************************************************************)
Types == {"int", "string"}

\* A stored value of dynamic type type (the store holds values of type any).
TypedValues == [type : Types, val : Values]

\* The payload type T of the handle of key.
PayloadType(key) == IF key = "X" THEN "int" ELSE "string"

\* commonz.Zero[T]().
Zero(type) == [type |-> type, val |-> NoValue]

NilReader == "nil"
Readers == {NilReader, "assembly"}

\* Faulty variant: Get returns the stored value without the type assertion.
Get_noTypeAssertion(r, st, key) ==
  IF r = NilReader
    THEN [val |-> Zero(PayloadType(key)), err |-> Err("reader is nil", {}, {})]
  ELSE LET g == getDataValue(st, key)
       IN IF g.err # nil THEN [val |-> Zero(PayloadType(key)), err |-> g.err]
          ELSE [val |-> g.val, err |-> nil]

\* dataKey[T].Get(r) for the handle of key; the reader reads the store of st.
Get(r, st, key) ==
  IF r = NilReader
    THEN [val |-> Zero(PayloadType(key)), err |-> Err("reader is nil", {}, {})]
  ELSE LET g == getDataValue(st, key)
       IN IF g.err # nil THEN [val |-> Zero(PayloadType(key)), err |-> g.err]
          ELSE IF g.val.type # PayloadType(key)
            THEN [val |-> Zero(PayloadType(key)),
                  err |-> Err("type assertion failed", {key}, {})]
          ELSE [val |-> g.val, err |-> nil]

\* A write of a value of any type into the store (putData takes any).
DataPut(key, value) ==
  /\ pc = "new"
  /\ LET r == putDataValue(State, key, value) IN
     /\ Store(r.st)
     /\ last' = Call("putDataValue", r.err)
  /\ UNCHANGED <<built, buildCompleted, pc, cur, buildErr, written>>

\* key.Get(r) called by the application.
DataGet(r, key) ==
  /\ pc = "new"
  /\ last' = Call("Get", Get(r, State, key).err)
  /\ UNCHANGED <<bindings, registry, data, waiters, producers, ready, built,
                 buildCompleted, heap, pc, cur, buildErr, written>>

NextData ==
  \/ \E key \in Keys, value \in TypedValues : DataPut(key, value)
  \/ \E r \in Readers, key \in Keys : DataGet(r, key)

SpecData == Init /\ [][NextData]_vars

\* C31: Get on a contract whose stored value is not of the handle's payload
\* type returns the type error and the zero value; Get on a contract
\* without a value returns the reader's missing-value error as it is; the
\* two errors differ; Get on a value of the payload type returns it.
C31_TypeErrorDistinct ==
  \A key \in Keys :
    LET g == Get("assembly", State, key) IN
    /\ (key \in DOMAIN data /\ data[key].type # PayloadType(key)) =>
         /\ g.err = Err("type assertion failed", {key}, {})
         /\ g.val = Zero(PayloadType(key))
    /\ key \notin DOMAIN data =>
         /\ g.err = getDataValue(State, key).err
         /\ g.err.kind = "no value found"
         /\ g.err # Err("type assertion failed", {key}, {})
    /\ (key \in DOMAIN data /\ data[key].type = PayloadType(key)) =>
         g = [val |-> data[key], err |-> nil]

C31_Witness ==
  /\ last = Call("Get", Err("type assertion failed", {}, {}))
  /\ \E key \in DOMAIN data : data[key].type # PayloadType(key)
  /\ \E key \in Keys : key \notin DOMAIN data
  /\ \E key \in DOMAIN data : data[key].type = PayloadType(key)

\* C32 as stated: a step in which install (from NewAssembly or through
\* Binder.Install) returns an error leaves bindings, the producer index,
\* the waiter index, the ready queue and the value store as they were.
C32_AsStated ==
  [][(last'.op \in {"install", "Install"} /\ last'.kind # "nil") =>
       UNCHANGED <<bindings, producers, waiters, ready, data>>]_vars

\* C33: the declared Produces sets of distinct installed binders are
\* disjoint; the producer index names, for every declared contract of an
\* installed binder, that binder; every value written through a Binder is
\* in the store as written, was written by the binder the producer index
\* names for the contract, and is recorded as produced by that binder only.
C33_SoleProducer ==
  /\ \A b, c \in Installed : b # c => heap[b].produces \cap heap[c].produces = {}
  /\ \A b \in Installed : \A k \in heap[b].produces :
       k \in DOMAIN producers /\ producers[k] = b
  /\ \A k \in DOMAIN written :
       /\ k \in DOMAIN producers /\ producers[k] = written[k].b
       /\ written[k].b \in Installed
       /\ k \in DOMAIN data /\ data[k] = written[k].value
       /\ \A b \in 1..Len(heap) : k \in heap[b].produced <=> b = written[k].b
  /\ \A k \in DOMAIN data : k \in DOMAIN written

C33_Witness ==
  /\ Cardinality(DOMAIN written) >= 2
  /\ \E j, k \in DOMAIN written : written[j].b # written[k].b
  /\ \A k \in DOMAIN written : producers[k] = written[k].b
  /\ pc = "configure"
  /\ last = Call("putData", nil)

\* C34: as long as Build has not been called no binder has been configured
\* or is in progress, nothing has been produced and the value store is
\* empty; a module installed without unmet dependencies is in the ready
\* queue, unconfigured; and every install that can be made in such a state
\* leaves the store empty and every binder unconfigured.
C34_NoConfigureBeforeBuild ==
  ~built =>
    /\ pc \in {"new", "failed"}
    /\ data = <<>> /\ written = <<>>
    /\ \A b \in 1..Len(heap) :
         /\ ~heap[b].configured /\ ~heap[b].inProgress
         /\ heap[b].produced = {}
    /\ \A b \in Installed : heap[b].waiting = {} <=> b \in Range(ready)
    /\ \A m \in Modules :
         \A pord \in Orders(Range(m.produces)), cord \in Orders(Range(m.consumes)) :
           LET r == install(State, m, NoParent, pord, cord) IN
           /\ r.st.data = <<>>
           /\ \A b \in 1..Len(r.st.heap) :
                ~r.st.heap[b].configured /\ ~r.st.heap[b].inProgress

C34_Witness ==
  /\ ~built
  /\ pc = "new"
  /\ last = Call("install", nil)
  /\ Len(ready) = 1
  /\ heap[ready[1]].consumes = {} /\ heap[ready[1]].produces # {}
  /\ Cardinality(Installed) >= 3
  /\ \E b \in Installed : heap[b].waiting # {}
  /\ \A b \in Installed : ~heap[b].configured

\* Modules for the runs about a module that consumes its own product.
mL  == Mod("a", FALSE, <<"X">>, <<"X">>)
LoopModules == {mL, mB, mH}

\* The engine with the modules of LoopModules.
NextLoop ==
  \/ \E m \in LoopModules : NewAssemblyInstall(m)
  \/ Build
  \/ BuildLoop
  \/ \E err \in ConfigureErrors : ConfigureReturn(err)
  \/ \E b \in 1..Len(heap), m \in LoopModules : BinderInstall(b, m)
  \/ \E b \in 1..Len(heap), key \in Keys : BinderGet(b, key)
  \/ \E b \in 1..Len(heap), key \in Keys, value \in Values : BinderPut(b, key, value)
  \/ \E key \in Keys : AssemblyGet(key)

SpecLoop == Init /\ [][NextLoop]_vars

\* The contracts binder b declares both as produced and as consumed.
SelfLoop(b) == heap[b].produces \cap heap[b].consumes

\* C35 as stated: when Build has returned with a module installed that
\* produces and consumes the same contract, the module was not configured
\* and Build's error is the build-incomplete error naming that contract.
C35_AsStated ==
  pc = "done" =>
    \A b \in Installed : \A k \in SelfLoop(b) :
      /\ ~heap[b].configured
      /\ buildErr.kind = "build_incomplete"
      /\ k \in buildErr.keys

\* C35 amended: a module that produces and consumes the same contract is
\* installed without error when nothing else rejects it; once installed it
\* waits for that contract for ever, is never in the ready queue and is
\* never configured, and the contract never has a value; when Build has
\* returned it returned an error, which is the build-incomplete error
\* naming the contract unless Build stopped earlier on the error of
\* another module's configuration.
C35_SelfLoopNeverReady ==
  /\ (pc = "new" /\ newModuleSignature(mL) \notin DOMAIN bindings
        /\ "X" \notin DOMAIN producers) =>
       LET r == install(State, mL, NoParent, <<"X">>, <<"X">>) IN
       /\ r.err = nil
       /\ newModuleSignature(mL) \in DOMAIN r.st.bindings
       /\ r.st.ready = ready
  /\ \A b \in Installed : \A k \in SelfLoop(b) :
       /\ k \in heap[b].waiting
       /\ k \notin DOMAIN data
       /\ b \in Range(WaitersOf(k))
       /\ b \notin Range(ready)
       /\ ~heap[b].configured /\ ~heap[b].inProgress
       /\ pc = "done" =>
            /\ buildErr # nil
            /\ buildErr.kind \in {"build_incomplete", "configuration"}
            /\ buildErr.kind = "build_incomplete" => k \in buildErr.keys
            /\ NoConfigurationError => buildErr.kind = "build_incomplete"

C35_Witness ==
  /\ pc = "done"
  /\ last.op = "BuildReturn"
  /\ buildErr = Err("build_incomplete", {"X"}, {})
  /\ \E b \in Installed : SelfLoop(b) = {"X"} /\ ~heap[b].configured
  /\ \E b \in Installed : heap[b].configured /\ heap[b].configErr = nil

\* C36: once Build has returned, with success or with an error, every step
\* leaves the engine as Build left it: a further Build returns the
\* called-once error, Install, getData and putData on any binder return
\* the phase error, and the external read changes nothing.
C36_FrozenAfterBuild ==
  /\ [](pc = "done" =>
          \A b \in 1..Len(heap) :
            /\ ~heap[b].inProgress
            /\ \A c \in BinderCalls(b) :
                 c.err = newPhaseError(c.op) /\ c.st = State)
  /\ [][pc = "done" =>
          /\ UNCHANGED <<bindings, registry, data, waiters, producers, ready, built,
                         buildCompleted, heap, pc, cur, buildErr, written>>
          /\ last'.op \in {"Build", "asm.getData"} \cup BinderOps
          /\ last'.op = "Build" => last'.kind = "Build_once"
          /\ last'.op \in BinderOps => last'.kind = "phase"]_vars

C36_Witness ==
  /\ pc = "done"
  /\ last = Call("putData", newPhaseError("putData"))
  /\ buildCompleted
  /\ Cardinality(Installed) >= 2
  /\ DOMAIN data # {}
  /\ \A b \in Installed : heap[b].configured

\* C37: an installed binder is listed under contract k in the waiter index
\* exactly when k is in its waiting set, and no binder is listed twice
\* under one contract; no contract has an empty list.
C37_WaitersAgree ==
  /\ \A b \in Installed : \A k \in Keys :
       b \in Range(WaitersOf(k)) <=> k \in heap[b].waiting
  /\ \A k \in DOMAIN waiters :
       /\ waiters[k] # <<>>
       /\ \A i, j \in 1..Len(waiters[k]) : waiters[k][i] = waiters[k][j] => i = j

C37_Witness ==
  /\ pc = "configure"
  /\ last = Call("putData", nil)
  /\ \E b \in Installed :
       /\ heap[b].waiting # {}
       /\ heap[b].waiting # heap[b].consumes
       /\ \A k \in heap[b].waiting : b \in Range(WaitersOf(k))
       /\ \A k \in heap[b].consumes \ heap[b].waiting : k \notin DOMAIN waiters

\* C38: a contract that has a value in the store has no entry in the waiter
\* index and is in the waiting set of no installed binder, whatever the
\* order of the installs and the puts; so an installed binder waits only
\* for contracts that have no value.
C38_NoLostWakeup ==
  /\ \A k \in DOMAIN data :
       /\ k \notin DOMAIN waiters
       /\ \A b \in Installed : k \notin heap[b].waiting
  /\ \A b \in Installed : heap[b].waiting = heap[b].consumes \ DOMAIN data

C38_Witness ==
  /\ pc = "configure"
  /\ last = Call("putData", nil)
  /\ \E b \in Installed :
       /\ heap[b].parent = cur
       /\ heap[b].consumes \cap DOMAIN data # {}
       /\ heap[b].consumes \cap heap[cur].produced # {}
       /\ \E c \in Installed :
            /\ c < b /\ c # cur
            /\ heap[c].consumes \cap heap[cur].produced # {}
            /\ heap[c].waiting = heap[c].consumes \ DOMAIN data

====
